---- MODULE Spec2Model ----
(***************************************************************************)
(* A model of the ImgBB upload client.  The repository carries four        *)
(* revisions of the client side by side:                                   *)
(*   "imgbb.go"  src/imgbb.go          (ImgBB, New, WithEndpoint, Is)      *)
(*   "part_001"  src/unnamed/part_001  (Client, context, NewImage checks)  *)
(*   "part_002"  src/unnamed/part_002  (ImgBB, NewImgBB, *ImgBBError)      *)
(*   "part_003"  src/unnamed/part_003  (Client, context, source images)    *)
(* The variable rev says which of them the client under study is; every    *)
(* operation is translated per revision.                                   *)
(***************************************************************************)
EXTENDS Integers, Sequences, FiniteSets, TLC

VARIABLES
    rev,        \* the revision of the client
    key,        \* ImgBB.key / Client.key
    endpoint,   \* ImgBB.endpoint (the package constant in the other revisions)
    pc,         \* per call: position of the caller in NewImage / Upload
    img,        \* per call: the *Image handed to Upload
    ctx,        \* per call: the context.Context handed to Upload
    ppc,        \* per call: position of the producer goroutine
    pipe,       \* per call: the io.Pipe between producer and request body
    sent,       \* per call: the parts the transport has read from the pipe
    failed,     \* per call: the parts whose write the producer saw fail
    req,        \* per call: the *http.Request built by Upload
    doCalls,    \* per call: the number of client.Do invocations
    httpResp,   \* per call: the *http.Response returned by client.Do
    result,     \* per call: what the call returned, (Response, error)
    isA,        \* errors.Is: the error
    isB,        \* errors.Is: the target
    isRes       \* errors.Is: the answers, once computed

callVars == <<pc, img, ctx, ppc, pipe, sent, failed, req, doCalls, httpResp,
              result>>
clientVars == <<rev, key, endpoint>>
isVars == <<isA, isB, isRes>>
vars == <<rev, key, endpoint, pc, img, ctx, ppc, pipe, sent, failed, req,
          doCalls, httpResp, result, isA, isB, isRes>>

-----------------------------------------------------------------------------
(* Bounds *)

\* payload lengths tried around the limit: maxSize - Margin .. maxSize + Margin
Margin == 1

\* the calls that exist, and the calls the single-call specification runs
AllCalls == {1, 2}
Calls == {1}

-----------------------------------------------------------------------------
(* Program constants *)

maxSize == 33554432

StatusOK == 200
StatusBadRequest == 400
StatusRequestEntityTooLarge == 413
StatusInternalServerError == 500

Revisions == {"imgbb.go", "part_001", "part_002", "part_003"}

DefaultEndpoint == "https://api.imgbb.com/1/upload"

\* revisions whose Upload takes a context.Context
HasContext(r) == r \in {"part_001", "part_003"}

\* revisions whose Upload returns *Response (nil on failure) rather than Response
ReturnsPointer(r) == r \in {"imgbb.go", "part_002"}

\* revisions whose Data.Time / Data.Expiration are Go strings (int64 otherwise)
TimeIsString(r) == r \in {"imgbb.go", "part_002"}

\* revisions whose Data has Width and Height
HasWidthHeight(r) == r # "part_002"

\* net/http.StatusText
StatusText(code) ==
    CASE code = 200 -> "OK"
      [] code = 400 -> "Bad Request"
      [] code = 413 -> "Request Entity Too Large"
      [] code = 500 -> "Internal Server Error"
      [] OTHER -> ""

-----------------------------------------------------------------------------
(* Errors.  A message is a sequence of text pieces, so that                *)
(* fmt.Sprintf("prefix: %v", err) is <<"prefix: ">> \o message of err.     *)

NoError == [kind |-> "nil"]

IsError(e) == e.kind # "nil"

\* errors.New(text), and what the transport, io.ReadAll and json.Unmarshal return
PlainError(msg) == [kind |-> "plain", msg |-> msg]

ErrFileEmpty == PlainError(<<"image file is empty">>)

ErrFileSize(r) ==
    PlainError(<< CASE r = "imgbb.go" -> "image is too large, max image size is 32mb"
                    [] r = "part_001" -> "image is too large (max image size is 32mb)"
                    [] OTHER -> "Image is too large. Max image size is 32mb" >>)

ErrInfo(message, code, context) ==
    [Message |-> message, Code |-> code, Context |-> context]

\* the struct ImgBBError / Error
MkError(code, text, info) ==
    [kind |-> "Error", StatusCode |-> code, StatusText |-> text, Err |-> info]

\* ImgBBError{StatusCode: code, StatusText: http.StatusText(code),
\*            Err: ErrInfo{Message: message}}
StatusError(code, message) ==
    MkError(code, StatusText(code), ErrInfo(message, 0, ""))

\* the error handed back for a failure of NewRequest, Do, ReadAll or Unmarshal
InternalError(r, prefix, cause) ==
    CASE r \in {"imgbb.go", "part_001"} ->
            StatusError(StatusInternalServerError, <<prefix>> \o cause.msg)
      [] r = "part_002" ->
            StatusError(StatusInternalServerError, cause.msg)
      [] OTHER -> PlainError(cause.msg)   \* fmt.Errorf("%w", err)

-----------------------------------------------------------------------------
(* JSON.  A body is either text that is not JSON, or a JSON value: a       *)
(* string, a number, a boolean, null, or an object (a function from member *)
(* names to values).                                                       *)

JStr(s) == [t |-> "str", s |-> s]
JNum(n) == [t |-> "num", n |-> n]
JBool(b) == [t |-> "bool", b |-> b]
JNull == [t |-> "null"]
JObj(m) == [t |-> "obj", m |-> m]

NotJSON(text) == [valid |-> FALSE, text |-> text]
JSON(v) == [valid |-> TRUE, v |-> v]

\* the member of object o named k; a missing member decodes like null
Member(o, k) == IF k \in DOMAIN o.m THEN o.m[k] ELSE JNull

\* encoding/json into a Go string, int, bool: null and a missing member leave
\* the zero value, a value of another JSON type is an UnmarshalTypeError
StringOK(v) == v.t \in {"str", "null"}
StringOf(v) == IF v.t = "str" THEN v.s ELSE ""
IntOK(v) == v.t \in {"num", "null"}
IntOf(v) == IF v.t = "num" THEN v.n ELSE 0
BoolOK(v) == v.t \in {"bool", "null"}
BoolOf(v) == IF v.t = "bool" THEN v.b ELSE FALSE
StructOK(v) == v.t \in {"obj", "null"}
StructOf(v) == IF v.t = "obj" THEN v ELSE JObj(<<>>)

InfoKeys == <<"filename", "name", "mime", "extension", "url">>

\* the struct Info, were the tag of Url the tag of Name
DecodeInfoWrongTag(v) ==
    LET o == StructOf(v) IN
    [ok  |-> StructOK(v) /\ \A i \in 1..Len(InfoKeys) : StringOK(Member(o, InfoKeys[i])),
     val |-> [Filename  |-> StringOf(Member(o, "filename")),
              Name      |-> StringOf(Member(o, "name")),
              Mime      |-> StringOf(Member(o, "mime")),
              Extension |-> StringOf(Member(o, "extension")),
              Url       |-> StringOf(Member(o, "name"))]]

\* the struct Info
DecodeInfo(v) ==
    LET o == StructOf(v) IN
    [ok  |-> StructOK(v) /\ \A i \in 1..Len(InfoKeys) : StringOK(Member(o, InfoKeys[i])),
     val |-> [Filename  |-> StringOf(Member(o, "filename")),
              Name      |-> StringOf(Member(o, "name")),
              Mime      |-> StringOf(Member(o, "mime")),
              Extension |-> StringOf(Member(o, "extension")),
              Url       |-> StringOf(Member(o, "url"))]]

\* Data.Time and Data.Expiration: a Go string in two revisions, int64 in the others
TimeOK(r, v) == IF TimeIsString(r) THEN StringOK(v) ELSE IntOK(v)
TimeOf(r, v) == IF TimeIsString(r) THEN StringOf(v) ELSE IntOf(v)

\* the struct Data
DecodeData(r, v) ==
    LET o == StructOf(v)
        image  == DecodeInfo(Member(o, "image"))
        thumb  == DecodeInfo(Member(o, "thumb"))
        medium == DecodeInfo(Member(o, "medium"))
        wh == IF HasWidthHeight(r)
              THEN [Width  |-> IntOf(Member(o, "width")),
                    Height |-> IntOf(Member(o, "height"))]
              ELSE <<>>
    IN
    [ok  |-> /\ StructOK(v)
             /\ StringOK(Member(o, "id"))
             /\ StringOK(Member(o, "title"))
             /\ StringOK(Member(o, "url_viewer"))
             /\ StringOK(Member(o, "url"))
             /\ StringOK(Member(o, "display_url"))
             /\ HasWidthHeight(r) => IntOK(Member(o, "width"))
             /\ HasWidthHeight(r) => IntOK(Member(o, "height"))
             /\ IntOK(Member(o, "size"))
             /\ TimeOK(r, Member(o, "time"))
             /\ TimeOK(r, Member(o, "expiration"))
             /\ image.ok /\ thumb.ok /\ medium.ok
             /\ StringOK(Member(o, "delete_url")),
     val |-> [ID         |-> StringOf(Member(o, "id")),
              Title      |-> StringOf(Member(o, "title")),
              UrlViewer  |-> StringOf(Member(o, "url_viewer")),
              Url        |-> StringOf(Member(o, "url")),
              DisplayUrl |-> StringOf(Member(o, "display_url")),
              Size       |-> IntOf(Member(o, "size")),
              Time       |-> TimeOf(r, Member(o, "time")),
              Expiration |-> TimeOf(r, Member(o, "expiration")),
              Image      |-> image.val,
              Thumb      |-> thumb.val,
              Medium     |-> medium.val,
              DeleteUrl  |-> StringOf(Member(o, "delete_url"))] @@ wh]

\* json.Unmarshal(body, &res) with res an ImgBBResponse / Response / ImgBBResult
UnmarshalResponse(r, body) ==
    IF ~body.valid
    THEN [ok |-> FALSE, err |-> PlainError(<<"invalid character">>)]
    ELSE LET v == body.v
             o == StructOf(v)
             data == DecodeData(r, Member(o, "data"))
         IN IF /\ StructOK(v)
               /\ data.ok
               /\ IntOK(Member(o, "status"))
               /\ BoolOK(Member(o, "success"))
            THEN [ok  |-> TRUE,
                  val |-> [Data       |-> data.val,
                           StatusCode |-> IntOf(Member(o, "status")),
                           Success    |-> BoolOf(Member(o, "success"))]]
            ELSE [ok |-> FALSE, err |-> PlainError(<<"json: cannot unmarshal">>)]

\* a Go string as a message: the empty string has no pieces
Text(str) == IF str = "" THEN <<>> ELSE <<str>>

\* json.Unmarshal(body, &errRes) with errRes an ImgBBError / Error
UnmarshalError(body) ==
    IF ~body.valid
    THEN [ok |-> FALSE, err |-> PlainError(<<"invalid character">>)]
    ELSE LET v == body.v
             o == StructOf(v)
             e == Member(o, "error")
             eo == StructOf(e)
         IN IF /\ StructOK(v)
               /\ IntOK(Member(o, "status_code"))
               /\ StringOK(Member(o, "status_txt"))
               /\ StructOK(e)
               /\ StringOK(Member(eo, "message"))
               /\ IntOK(Member(eo, "code"))
               /\ StringOK(Member(eo, "context"))
            THEN [ok  |-> TRUE,
                  val |-> MkError(IntOf(Member(o, "status_code")),
                                  StringOf(Member(o, "status_txt")),
                                  ErrInfo(Text(StringOf(Member(eo, "message"))),
                                          IntOf(Member(eo, "code")),
                                          StringOf(Member(eo, "context"))))]
            ELSE [ok |-> FALSE, err |-> PlainError(<<"json: cannot unmarshal">>)]

-----------------------------------------------------------------------------
(* What Upload returns *)

NilResponse == [kind |-> "nil"]
Value(v) == [kind |-> "value", val |-> v]

\* Response{}: every field at its zero value, which is what {} decodes to
ZeroResponse(r) == UnmarshalResponse(r, JSON(JObj(<<>>))).val

\* `return nil, err` in the pointer revisions, `return Response{}, err` in the others
Fail(r, err) ==
    [resp |-> IF ReturnsPointer(r) THEN NilResponse ELSE Value(ZeroResponse(r)),
     err  |-> err]

\* `return &res, nil` / `return res, nil`
Success(v) == [resp |-> Value(v), err |-> NoError]

Pending == [resp |-> [kind |-> "pending"], err |-> [kind |-> "pending"]]

\* respParse, were it to hand back the partly decoded value with the error
respParseKeepsValue(r, resp) ==
    IF resp.readErr
    THEN Fail(r, InternalError(r, "read response body: ",
                               PlainError(<<"unexpected EOF">>)))
    ELSE IF resp.StatusCode = StatusOK
         THEN LET res == UnmarshalResponse(r, resp.Body)
              IN IF res.ok
                 THEN Success(res.val)
                 ELSE [resp |-> Value(ZeroResponse(r)),
                       err  |-> InternalError(r, "json unmarshal: ", res.err)]
         ELSE LET errRes == UnmarshalError(resp.Body)
              IN IF errRes.ok
                 THEN [resp |-> Value([ZeroResponse(r) EXCEPT
                                          !.StatusCode = errRes.val.StatusCode]),
                       err  |-> errRes.val]
                 ELSE Fail(r, InternalError(r, "json unmarshal: ", errRes.err))

\* respParse, were it to take the error's status from the HTTP response
respParseHTTPStatus(r, resp) ==
    IF resp.readErr
    THEN Fail(r, InternalError(r, "read response body: ",
                               PlainError(<<"unexpected EOF">>)))
    ELSE IF resp.StatusCode = StatusOK
         THEN LET res == UnmarshalResponse(r, resp.Body)
              IN IF res.ok
                 THEN Success(res.val)
                 ELSE Fail(r, InternalError(r, "json unmarshal: ", res.err))
         ELSE LET errRes == UnmarshalError(resp.Body)
              IN IF errRes.ok
                 THEN Fail(r, MkError(resp.StatusCode, StatusText(resp.StatusCode),
                                      errRes.val.Err))
                 ELSE Fail(r, InternalError(r, "json unmarshal: ", errRes.err))

\* respParse; io.ReadAll(resp.Body) fails (resp.readErr) or yields resp.Body
respParse(r, resp) ==
    IF resp.readErr
    THEN Fail(r, InternalError(r, "read response body: ",
                               PlainError(<<"unexpected EOF">>)))
    ELSE IF resp.StatusCode = StatusOK
         THEN LET res == UnmarshalResponse(r, resp.Body)
              IN IF res.ok
                 THEN Success(res.val)
                 ELSE Fail(r, InternalError(r, "json unmarshal: ", res.err))
         ELSE LET errRes == UnmarshalError(resp.Body)
              IN IF errRes.ok
                 THEN Fail(r, errRes.val)
                 ELSE Fail(r, InternalError(r, "json unmarshal: ", errRes.err))

-----------------------------------------------------------------------------
(* Images *)

\* the byte lengths of the payloads tried
PayloadSizes == {0, 1} \cup ((maxSize - Margin) .. (maxSize + Margin))

\* a payload: bytes of a file, or a source string (part_003's NewImage)
Payloads == [kind : {"file", "source"}, len : PayloadSizes]

Names == {"name"}

Digit == <<"0", "1", "2", "3", "4", "5", "6", "7", "8", "9">>

\* strconv.FormatUint(n, 10), as the sequence of its digits
RECURSIVE FormatUint(_)
FormatUint(n) ==
    IF n < 10 THEN <<Digit[n + 1]>>
    ELSE FormatUint(n \div 10) \o <<Digit[(n % 10) + 1]>>

\* the expirations tried: strings (sequences of characters) where the revision
\* takes a string, numbers of seconds where it takes a uint64
TTLs == {0, 60}
Expirations(r) == IF TimeIsString(r) THEN {<<>>, <<"6", "0">>} ELSE TTLs

\* the payload kinds a revision's constructors accept
PayloadKinds(r) == IF r = "part_003" THEN {"file", "source"} ELSE {"file"}

NoImage == [ok |-> FALSE, err |-> NoError]

\* the check NewImage makes before it builds the Image (part_001 only)
CheckImage(r, payload) ==
    IF r = "part_001"
    THEN IF payload.len <= 0 THEN ErrFileEmpty
         ELSE IF payload.len > maxSize THEN ErrFileSize(r)
         ELSE NoError
    ELSE NoError

\* the check Upload makes on entry (imgbb.go and part_002 only)
Validate(r, im) ==
    CASE r = "imgbb.go" ->
            IF im.size <= 0
            THEN StatusError(StatusBadRequest, ErrFileEmpty.msg)
            ELSE IF im.size > maxSize
                 THEN StatusError(StatusBadRequest, ErrFileSize(r).msg)
                 ELSE NoError
      [] r = "part_002" ->
            IF im.size > maxSize
            THEN StatusError(StatusRequestEntityTooLarge, ErrFileSize(r).msg)
            ELSE NoError
      [] OTHER -> NoError

-----------------------------------------------------------------------------
(* The request *)

\* endpoints a client is built with; url.Parse rejects the last one
TestEndpoint == "https://127.0.0.1:8443"
BadEndpoint == "://missing-scheme"
Endpoints(r) == IF r = "imgbb.go" THEN {DefaultEndpoint, TestEndpoint, BadEndpoint}
                ELSE {DefaultEndpoint}
ParseOK(url) == url # BadEndpoint

\* the contexts a caller passes (none where Upload takes no context)
Contexts(r) == IF HasContext(r) THEN {"background", "live", "canceled", "nil"}
               ELSE {"none"}

\* http.NewRequest / http.NewRequestWithContext: NoError, or why it fails
NewRequestError(url, cx) ==
    IF cx = "nil" THEN PlainError(<<"net/http: nil Context">>)
    ELSE IF ~ParseOK(url) THEN PlainError(<<"parse: missing protocol scheme">>)
    ELSE NoError

NoRequest == [built |-> FALSE]

\* the request with its four headers
Request(url, cx) ==
    [built |-> TRUE, Method |-> "POST", URL |-> url, ctx |-> cx,
     Header |-> [ContentType |-> "multipart/form-data; boundary",
                 Host |-> "imgbb.com",
                 Origin |-> "https://imgbb.com",
                 Referer |-> "https://imgbb.com/"]]

Field(name, value) == [part |-> "field", name |-> name, value |-> value]
FilePart(name, filename, data) ==
    [part |-> "file", name |-> name, filename |-> filename, data |-> data]
\* WriteField("image", img.source): a field whose value is the source string
SourceField(name, data) == [part |-> "source", name |-> name, data |-> data]
Trailer == [part |-> "close"]

\* the expiration field, when the image has one
ExpirationField(r, im) ==
    IF TimeIsString(r)
    THEN IF Len(im.expiration) > 0 THEN <<Field("expiration", im.expiration)>> ELSE <<>>
    ELSE IF im.expiration > 0
         THEN <<Field("expiration", FormatUint(im.expiration))>> ELSE <<>>

\* what the producer goroutine writes to the pipe, in order; the last write is
\* the closing boundary of the deferred multipart Close
Body(r, k, im) ==
    IF r = "part_003"
    THEN <<Field("key", <<k>>)>> \o ExpirationField(r, im)
         \o (IF im.payload.kind = "file"
             THEN <<FilePart("image", im.name, im.payload)>>
             ELSE <<Field("name", <<im.name>>), SourceField("image", im.payload)>>)
         \o <<Trailer>>
    ELSE <<Field("key", <<k>>), Field("type", <<"file">>), Field("action", <<"upload">>)>>
         \o ExpirationField(r, im)
         \o <<FilePart("image", im.name, im.payload)>>
         \o <<Trailer>>

-----------------------------------------------------------------------------
(* The transport and the service: what client.Do can come back with *)

\* errors of client.Do; the last needs a cancelled context
TransportErrors ==
    {<<"dial tcp: lookup api.imgbb.com: no such host">>,
     <<"dial tcp: connection refused">>,
     <<"context deadline exceeded (Client.Timeout exceeded)">>,
     <<"context canceled">>}

Statuses == {StatusOK, StatusBadRequest, StatusInternalServerError}

InfoJSON(file, fileUrl) ==
    JObj([filename |-> JStr(file), name |-> JStr("c1f64245afb2"),
          mime |-> JStr("image/gif"), extension |-> JStr("gif"),
          url |-> JStr(fileUrl)])

\* the success payload of the service; time and expiration as JSON strings
\* (asString) or as JSON numbers
SuccessJSON(asString) ==
    JObj([data |-> JObj(
            [id |-> JStr("2ndCYJK"),
             title |-> JStr("c1f64245afb2"),
             url_viewer |-> JStr("https://ibb.co/2ndCYJK"),
             url |-> JStr("https://i.ibb.co/w04Prt6/c1f64245afb2.gif"),
             display_url |-> JStr("https://i.ibb.co/98W13PY/c1f64245afb2.gif"),
             width |-> JNum(1),
             height |-> JNum(2),
             size |-> JNum(42),
             time |-> IF asString THEN JStr("1552042565") ELSE JNum(1552042565),
             expiration |-> IF asString THEN JStr("0") ELSE JNum(600),
             image |-> InfoJSON("c1f64245afb2.gif", "https://i.ibb.co/w04Prt6/c1f64245afb2.gif"),
             thumb |-> InfoJSON("thumb.gif", "https://i.ibb.co/2ndCYJK/c1f64245afb2.gif"),
             medium |-> InfoJSON("medium.gif", "https://i.ibb.co/98W13PY/c1f64245afb2.gif"),
             delete_url |-> JStr("https://ibb.co/2ndCYJK/670a7e48ddcb85ac340c717a41047e5c")]),
          success |-> JBool(TRUE),
          status |-> JNum(200)])

\* the error payload of the service
ErrorJSON(code, text) ==
    JObj([error |-> JObj([message |-> JStr("error message"),
                          code |-> JNum(999),
                          context |-> JStr("error context")]),
          status_code |-> JNum(code),
          status_txt |-> JStr(text)])

\* the response bodies tried
Bodies ==
    {JSON(SuccessJSON(TRUE)),
     JSON(SuccessJSON(FALSE)),
     JSON(ErrorJSON(500, "internal error")),
     JSON(ErrorJSON(400, "Bad Request")),
     JSON(JObj(<<>>)),
     JSON(JObj([data |-> JObj([id |-> JStr("2ndCYJK")]), status |-> JNum(200)])),
     JSON(JObj([status_code |-> JStr("500"), status |-> JStr("200")])),
     JSON(JStr("bad response format")),
     NotJSON("bad response format")}

\* no response: client.Do has not returned, or has returned the error err
NoResponse == [received |-> FALSE, err |-> NoError]

-----------------------------------------------------------------------------
(* The state after construction of the client, before any call *)

InitCalls ==
    /\ pc = [c \in AllCalls |-> "idle"]
    /\ img = [c \in AllCalls |-> NoImage]
    /\ ctx = [c \in AllCalls |-> "none"]
    /\ ppc = [c \in AllCalls |-> "none"]
    /\ pipe = [c \in AllCalls |-> [rclosed |-> FALSE, wclosed |-> FALSE]]
    /\ sent = [c \in AllCalls |-> <<>>]
    /\ failed = [c \in AllCalls |-> <<>>]
    /\ req = [c \in AllCalls |-> NoRequest]
    /\ doCalls = [c \in AllCalls |-> 0]
    /\ httpResp = [c \in AllCalls |-> NoResponse]
    /\ result = [c \in AllCalls |-> Pending]

\* New / NewClient / NewImgBB
Init ==
    /\ rev \in Revisions
    /\ key = "secret-key"
    /\ endpoint \in Endpoints(rev)
    /\ InitCalls
    /\ isA = NoError
    /\ isB = NoError
    /\ isRes = [done |-> FALSE]

-----------------------------------------------------------------------------
(* NewImage / NewImageFromFile *)

NewImage(c, name, expiration, payload) ==
    /\ pc[c] = "idle"
    /\ LET err == CheckImage(rev, payload) IN
       IF IsError(err)
       THEN /\ img' = [img EXCEPT ![c] = [ok |-> FALSE, err |-> err]]
            /\ pc' = [pc EXCEPT ![c] = "rejected"]
       ELSE /\ img' = [img EXCEPT ![c] =
                          [ok |-> TRUE, name |-> name, size |-> payload.len,
                           expiration |-> expiration, payload |-> payload]]
            /\ pc' = [pc EXCEPT ![c] = "image"]
    /\ UNCHANGED <<ctx, ppc, pipe, sent, req, doCalls, httpResp, result>>
    /\ UNCHANGED <<clientVars, isVars, failed>>

-----------------------------------------------------------------------------
(* Upload, from its entry to the call of client.Do *)

\* Upload, were it to start the pipe and the producer before it validates
UploadValidatesLate(c, cx) ==
    /\ pc[c] = "image"
    /\ ctx' = [ctx EXCEPT ![c] = cx]
    /\ ppc' = [ppc EXCEPT ![c] = "writing"]
    /\ LET invalid == Validate(rev, img[c])
           reqErr == NewRequestError(endpoint, cx)
       IN
       IF IsError(invalid)
       THEN /\ result' = [result EXCEPT ![c] = Fail(rev, invalid)]
            /\ pc' = [pc EXCEPT ![c] = "done"]
            /\ UNCHANGED <<req, doCalls>>
       ELSE IF IsError(reqErr)
            THEN /\ result' = [result EXCEPT ![c] =
                       Fail(rev, InternalError(rev, "new request: ", reqErr))]
                 /\ pc' = [pc EXCEPT ![c] = "done"]
                 /\ UNCHANGED <<req, doCalls>>
            ELSE /\ req' = [req EXCEPT ![c] = Request(endpoint, cx)]
                 /\ doCalls' = [doCalls EXCEPT ![c] = @ + 1]
                 /\ pc' = [pc EXCEPT ![c] = "do"]
                 /\ UNCHANGED result
    /\ UNCHANGED <<img, pipe, sent, httpResp>>
    /\ UNCHANGED <<clientVars, isVars, failed>>

Upload(c, cx) ==
    /\ pc[c] = "image"
    /\ ctx' = [ctx EXCEPT ![c] = cx]
    /\ LET invalid == Validate(rev, img[c])
           reqErr == NewRequestError(endpoint, cx)
       IN
       IF IsError(invalid)
       THEN \* rejected on entry: nothing was started
            /\ result' = [result EXCEPT ![c] = Fail(rev, invalid)]
            /\ pc' = [pc EXCEPT ![c] = "done"]
            /\ UNCHANGED <<ppc, req, doCalls>>
       ELSE \* io.Pipe, multipart.NewWriter, go func() { ... }
            /\ ppc' = [ppc EXCEPT ![c] = "writing"]
            /\ IF IsError(reqErr)
               THEN /\ result' = [result EXCEPT ![c] =
                          Fail(rev, InternalError(rev, "new request: ", reqErr))]
                    /\ pc' = [pc EXCEPT ![c] = "done"]
                    /\ UNCHANGED <<req, doCalls>>
               ELSE /\ req' = [req EXCEPT ![c] = Request(endpoint, cx)]
                    /\ doCalls' = [doCalls EXCEPT ![c] = @ + 1]
                    /\ pc' = [pc EXCEPT ![c] = "do"]
                    /\ UNCHANGED result
    /\ UNCHANGED <<img, pipe, sent, httpResp>>
    /\ UNCHANGED <<clientVars, isVars, failed>>

-----------------------------------------------------------------------------
(* The producer goroutine.  A write to an io.Pipe returns once the reader   *)
(* has taken the bytes, or fails once the read end is closed; it blocks    *)
(* otherwise.  The transport reads the request body while Do is running.   *)

\* one write of the producer, taken by the transport
ProducerWrite(c) ==
    /\ ppc[c] = "writing"
    /\ pc[c] = "do"
    /\ ~pipe[c].rclosed
    /\ Len(sent[c]) < Len(Body(rev, key, img[c]))
    /\ sent' = [sent EXCEPT ![c] = Append(@, Body(rev, key, img[c])[Len(@) + 1])]
    /\ UNCHANGED <<pc, img, ctx, ppc, pipe, req, doCalls, httpResp, result>>
    /\ UNCHANGED <<clientVars, isVars, failed>>

\* everything is written: the deferred pipe Close, and the goroutine ends
ProducerDone(c) ==
    /\ ppc[c] = "writing"
    /\ Len(sent[c]) = Len(Body(rev, key, img[c]))
    /\ ppc' = [ppc EXCEPT ![c] = "exited"]
    /\ pipe' = [pipe EXCEPT ![c].wclosed = TRUE]
    /\ UNCHANGED <<pc, img, ctx, sent, req, doCalls, httpResp, result>>
    /\ UNCHANGED <<clientVars, isVars, failed>>

\* The writes that fail once the read end is closed, when n parts of body were
\* written: the write in progress, which makes the goroutine return, and the
\* closing boundary of the deferred multipart Close.  part_002 drops the result
\* of WriteField, so there a failed field is followed by every later write up
\* to CreateFormFile, whose error is the first one looked at.
FailedWrites(r, body, n) ==
    LET first == body[n + 1] IN
    IF r = "part_002" /\ first.part = "field"
    THEN SubSeq(body, n + 1, Len(body))
    ELSE IF first.part = "close" THEN <<first>> ELSE <<first, Trailer>>

\* a write fails on the closed read end: return, the deferred Closes run
ProducerAbort(c) ==
    /\ ppc[c] = "writing"
    /\ pipe[c].rclosed
    /\ Len(sent[c]) < Len(Body(rev, key, img[c]))
    /\ failed' = [failed EXCEPT ![c] =
                     FailedWrites(rev, Body(rev, key, img[c]), Len(sent[c]))]
    /\ ppc' = [ppc EXCEPT ![c] = "exited"]
    /\ pipe' = [pipe EXCEPT ![c].wclosed = TRUE]
    /\ UNCHANGED <<pc, img, ctx, sent, req, doCalls, httpResp, result>>
    /\ UNCHANGED <<clientVars, isVars>>

\* the caller's context is cancelled, or its deadline passes, during the call
CtxCancel(c) ==
    /\ pc[c] = "do"
    /\ ctx[c] = "live"
    /\ ctx' = [ctx EXCEPT ![c] = "canceled"]
    /\ UNCHANGED <<pc, img, ppc, pipe, sent, req, doCalls, httpResp, result>>
    /\ UNCHANGED <<clientVars, isVars, failed>>

-----------------------------------------------------------------------------
(* Upload, from the return of client.Do *)

\* client.Do fails with e; the transport closes the request body
DoError(c, e) ==
    /\ pc[c] = "do"
    /\ e = <<"context canceled">> => ctx[c] = "canceled"
    /\ pipe' = [pipe EXCEPT ![c].rclosed = TRUE]
    /\ httpResp' = [httpResp EXCEPT ![c] = [received |-> FALSE, err |-> PlainError(e)]]
    /\ result' = [result EXCEPT ![c] =
           Fail(rev, InternalError(rev, "http client request do: ", PlainError(e)))]
    /\ pc' = [pc EXCEPT ![c] = "done"]
    /\ UNCHANGED <<img, ctx, ppc, sent, req, doCalls>>
    /\ UNCHANGED <<clientVars, isVars, failed>>

\* client.Do returns a response, whose body will be read whole or will fail
\* under the read (readErr); the transport closes the request body.  Once the
\* context is done the round trip ends in an error instead.
DoResponse(c, status, body, readErr) ==
    /\ pc[c] = "do"
    /\ ctx[c] # "canceled"
    /\ pipe' = [pipe EXCEPT ![c].rclosed = TRUE]
    /\ httpResp' = [httpResp EXCEPT ![c] =
           [received |-> TRUE, StatusCode |-> status, Body |-> body,
            readErr |-> readErr, closed |-> FALSE]]
    /\ pc' = [pc EXCEPT ![c] = "parse"]
    /\ UNCHANGED <<img, ctx, ppc, sent, req, doCalls, result>>
    /\ UNCHANGED <<clientVars, isVars, failed>>

\* RespParse, were the response kept in a field of the client that every call
\* overwrites: a call parses the response that arrived last
RespParseShared(c) ==
    /\ pc[c] = "parse"
    /\ LET later == {d \in AllCalls \ {c} : httpResp[d].received}
           resp == IF later = {} THEN httpResp[c]
                   ELSE httpResp[CHOOSE d \in later : TRUE]
       IN result' = [result EXCEPT ![c] = respParse(rev, resp)]
    /\ httpResp' = [httpResp EXCEPT ![c].closed = TRUE]
    /\ pc' = [pc EXCEPT ![c] = "done"]
    /\ UNCHANGED <<img, ctx, ppc, pipe, sent, req, doCalls>>
    /\ UNCHANGED <<clientVars, isVars, failed>>

\* `defer resp.Body.Close()` and `return i.respParse(resp)`
RespParse(c) ==
    /\ pc[c] = "parse"
    /\ result' = [result EXCEPT ![c] = respParse(rev, httpResp[c])]
    /\ httpResp' = [httpResp EXCEPT ![c].closed = TRUE]
    /\ pc' = [pc EXCEPT ![c] = "done"]
    /\ UNCHANGED <<img, ctx, ppc, pipe, sent, req, doCalls>>
    /\ UNCHANGED <<clientVars, isVars, failed>>

-----------------------------------------------------------------------------

Step(c) ==
    \/ \E name \in Names, e \in Expirations(rev), p \in Payloads :
          /\ p.kind \in PayloadKinds(rev)
          /\ NewImage(c, name, e, p)
    \/ \E cx \in Contexts(rev) : Upload(c, cx)
    \/ ProducerWrite(c)
    \/ ProducerDone(c)
    \/ ProducerAbort(c)
    \/ CtxCancel(c)
    \/ \E e \in TransportErrors : DoError(c, e)
    \/ \E status \in Statuses, body \in Bodies, readErr \in BOOLEAN :
          DoResponse(c, status, body, readErr)
    \/ RespParse(c)

Next == \E c \in Calls : Step(c)

Spec == Init /\ [][Next]_vars

-----------------------------------------------------------------------------
(* Several goroutines calling Upload on one client.  Every call has its own  *)
(* image; the inputs are fewer than in Spec, the steps are the same.         *)

\* the images of call c: the first call's are small and never expire, the
\* second call's are at the size limit and expire
ConcPayloads(c) ==
    IF c = 1 THEN {[kind |-> "file", len |-> 0], [kind |-> "file", len |-> 1]}
    ELSE {[kind |-> "file", len |-> maxSize], [kind |-> "file", len |-> maxSize + 1]}

ConcExpiration(r, c) ==
    IF c = 1 THEN (IF TimeIsString(r) THEN <<>> ELSE 0)
    ELSE (IF TimeIsString(r) THEN <<"6", "0">> ELSE 60)

ConcContexts(r) == IF HasContext(r) THEN {"background", "live"} ELSE {"none"}

ConcTransportErrors == {<<"dial tcp: connection refused">>, <<"context canceled">>}

\* the service accepts the upload or refuses it
ConcReplies(r) ==
    {[status |-> StatusOK, body |-> JSON(SuccessJSON(TimeIsString(r)))],
     [status |-> StatusBadRequest, body |-> JSON(ErrorJSON(400, "Bad Request"))]}

StepConc(c) ==
    \/ \E name \in Names, p \in ConcPayloads(c) :
          NewImage(c, name, ConcExpiration(rev, c), p)
    \/ \E cx \in ConcContexts(rev) : Upload(c, cx)
    \/ ProducerWrite(c)
    \/ ProducerDone(c)
    \/ ProducerAbort(c)
    \/ CtxCancel(c)
    \/ \E e \in ConcTransportErrors : DoError(c, e)
    \/ \E reply \in ConcReplies(rev) :
          DoResponse(c, reply.status, reply.body, FALSE)
    \/ RespParse(c)

NextConc == \E c \in AllCalls : StepConc(c)

SpecConc == Init /\ [][NextConc]_vars

-----------------------------------------------------------------------------
(* Error matching: errors.Is(err, target) as a caller or a test uses it *)

\* err == target, for two error values
SameError(a, b) == a.kind = b.kind /\ a = b

\* the method ImgBBError.Is (imgbb.go only)
Is(e, target) ==
    IF target.kind # "Error"
    THEN FALSE
    ELSE target.StatusCode = e.StatusCode /\ target.StatusText = e.StatusText

\* errors.Is of the standard library on the error values of revision r: equal
\* comparable values match, and so does an err whose Is method says so
ErrorsIs(r, err, target) ==
    \/ SameError(err, target)
    \/ r = "imgbb.go" /\ err.kind = "Error" /\ Is(err, target)

\* the revisions whose error struct is an error (part_002 returns *ImgBBError,
\* which has no Error method)
ErrorRevisions == {"imgbb.go", "part_001", "part_003"}

ErrorValues ==
    {MkError(code, text, info) :
        code \in {StatusBadRequest, StatusInternalServerError},
        text \in {StatusText(StatusBadRequest), StatusText(StatusInternalServerError)},
        info \in {ErrInfo(<<>>, 0, ""),
                  ErrInfo(<<"error message">>, 999, "error context")}}
    \cup {ErrFileEmpty}

InitIs ==
    /\ rev \in ErrorRevisions
    /\ key = "secret-key"
    /\ endpoint = DefaultEndpoint
    /\ InitCalls
    /\ isA \in ErrorValues
    /\ isB \in ErrorValues
    /\ isRes = [done |-> FALSE]

\* errors.Is(isA, isB) and errors.Is(isB, isA)
CallErrorsIs ==
    /\ ~isRes.done
    /\ isRes' = [done |-> TRUE,
                 ab |-> ErrorsIs(rev, isA, isB),
                 ba |-> ErrorsIs(rev, isB, isA)]
    /\ UNCHANGED <<clientVars, callVars, isA, isB>>

NextIs == CallErrorsIs

SpecIs == InitIs /\ [][NextIs]_vars

-----------------------------------------------------------------------------
(* Properties of Upload's outcome *)

\* the call has returned from Upload
Returned(c) == pc[c] = "done"

\* the returned error is a validation error of Upload
IsValidationError(e) ==
    /\ e.kind = "Error"
    /\ e.Err.Message \in {ErrFileEmpty.msg, ErrFileSize(rev).msg}

\* the returned Response is nil, or the zero value where Upload returns a value
NoResponseReturned(c) ==
    IF ReturnsPointer(rev)
    THEN result[c].resp.kind = "nil"
    ELSE /\ result[c].resp.kind = "value"
         /\ result[c].resp.val = ZeroResponse(rev)

\* C1: every Upload that has returned, on whichever path, produced exactly one
\* of the two outcomes: a Response with a nil error, or an error with no
\* Response (nil, or the zero value); and nothing is produced before it returns.
C1_ExactlyOneOutcome ==
    \A c \in AllCalls :
        IF Returned(c)
        THEN \/ /\ result[c].err.kind = "nil"
                /\ result[c].resp.kind = "value"
             \/ /\ result[c].err.kind \in {"Error", "plain"}
                /\ NoResponseReturned(c)
        ELSE result[c] = Pending

\* a call whose response failed to decode has returned
C1_Witness ==
    \E c \in AllCalls :
        /\ Returned(c)
        /\ httpResp[c].received
        /\ ~httpResp[c].readErr
        /\ ~httpResp[c].Body.valid
        /\ result[c].err.kind # "nil"

\* C4: when Upload returns a validation error (empty payload, payload too
\* large), or NewImage refuses the payload, no producer was started, no request
\* was built and client.Do was never invoked.
C4_ValidationBeforeNetwork ==
    \A c \in AllCalls :
        (\/ pc[c] = "rejected"
         \/ Returned(c) /\ IsValidationError(result[c].err))
        => /\ ppc[c] = "none"
           /\ ~req[c].built
           /\ doCalls[c] = 0
           /\ ~httpResp[c].received
           /\ sent[c] = <<>>

\* an Upload has returned the validation error of an oversized payload
C4_Witness ==
    \E c \in AllCalls :
        /\ Returned(c)
        /\ IsValidationError(result[c].err)
        /\ img[c].size > maxSize
        /\ ppc[c] = "none"

-----------------------------------------------------------------------------
(* Properties of the response parser, stated on the JSON text itself *)

\* object o has a member k of JSON type t
HasT(o, k, t) == k \in DOMAIN o.m /\ o.m[k].t = t

\* the JSON type the revision's Time and Expiration fields take
TimeT(r) == IF TimeIsString(r) THEN "str" ELSE "num"

\* member k of o is a complete Info object
InfoShaped(o, k) ==
    /\ HasT(o, k, "obj")
    /\ \A i \in 1..Len(InfoKeys) : HasT(o.m[k], InfoKeys[i], "str")

\* the body is a complete success payload in the types of revision r
WellFormedSuccess(r, body) ==
    /\ body.valid
    /\ body.v.t = "obj"
    /\ HasT(body.v, "status", "num")
    /\ HasT(body.v, "success", "bool")
    /\ HasT(body.v, "data", "obj")
    /\ LET d == body.v.m["data"] IN
       /\ \A k \in {"id", "title", "url_viewer", "url", "display_url", "delete_url"} :
             HasT(d, k, "str")
       /\ \A k \in {"width", "height", "size"} : HasT(d, k, "num")
       /\ \A k \in {"time", "expiration"} : HasT(d, k, TimeT(r))
       /\ \A k \in {"image", "thumb", "medium"} : InfoShaped(d, k)

\* the body is a complete error payload
ErrorShaped(body) ==
    /\ body.valid
    /\ body.v.t = "obj"
    /\ HasT(body.v, "status_code", "num")
    /\ HasT(body.v, "status_txt", "str")
    /\ HasT(body.v, "error", "obj")
    /\ HasT(body.v.m["error"], "message", "str")
    /\ HasT(body.v.m["error"], "code", "num")
    /\ HasT(body.v.m["error"], "context", "str")

\* the scalar of a JSON string or number
Scalar(v) == IF v.t = "str" THEN v.s ELSE v.n

\* the Info value info carries the members of the JSON object o
InfoEquals(info, o) ==
    /\ info.Filename = o.m["filename"].s
    /\ info.Name = o.m["name"].s
    /\ info.Mime = o.m["mime"].s
    /\ info.Extension = o.m["extension"].s
    /\ info.Url = o.m["url"].s

\* the Response value res carries the members of the JSON object v
ResponseEquals(r, res, v) ==
    LET d == v.m["data"] IN
    /\ res.StatusCode = v.m["status"].n
    /\ res.Success = v.m["success"].b
    /\ res.Data.ID = d.m["id"].s
    /\ res.Data.Title = d.m["title"].s
    /\ res.Data.UrlViewer = d.m["url_viewer"].s
    /\ res.Data.Url = d.m["url"].s
    /\ res.Data.DisplayUrl = d.m["display_url"].s
    /\ HasWidthHeight(r) => /\ res.Data.Width = d.m["width"].n
                            /\ res.Data.Height = d.m["height"].n
    /\ res.Data.Size = d.m["size"].n
    /\ res.Data.Time = Scalar(d.m["time"])
    /\ res.Data.Expiration = Scalar(d.m["expiration"])
    /\ InfoEquals(res.Data.Image, d.m["image"])
    /\ InfoEquals(res.Data.Thumb, d.m["thumb"])
    /\ InfoEquals(res.Data.Medium, d.m["medium"])
    /\ res.Data.DeleteUrl = d.m["delete_url"].s

\* client.Do returned a response with this status class and its body was read
GotBody(c) == Returned(c) /\ httpResp[c].received /\ ~httpResp[c].readErr

C6_ServiceErrorVerbatim ==
    \A c \in AllCalls :
        (/\ GotBody(c)
         /\ httpResp[c].StatusCode # StatusOK
         /\ ErrorShaped(httpResp[c].Body))
        => LET v == httpResp[c].Body.v
               e == result[c].err
           IN /\ NoResponseReturned(c)
              /\ e.kind = "Error"
              /\ e.StatusCode = v.m["status_code"].n
              /\ e.StatusText = v.m["status_txt"].s
              /\ e.Err.Message = <<v.m["error"].m["message"].s>>
              /\ e.Err.Code = v.m["error"].m["code"].n
              /\ e.Err.Context = v.m["error"].m["context"].s

\* an error body whose status_code differs from the HTTP status has been parsed
C6_Witness ==
    \E c \in AllCalls :
        /\ GotBody(c)
        /\ httpResp[c].StatusCode = StatusInternalServerError
        /\ ErrorShaped(httpResp[c].Body)
        /\ httpResp[c].Body.v.m["status_code"].n = StatusBadRequest
        /\ result[c].err.kind = "Error"
        /\ result[c].err.StatusCode = StatusBadRequest

-----------------------------------------------------------------------------
(* Statements that some revision of the code does not meet *)

\* Upload has been called with the image of call c
Uploaded(c) == pc[c] \in {"do", "parse", "done"}

\* the error is the structured error of the given status
HasStatus(e, code) ==
    /\ e.kind = "Error"
    /\ e.StatusCode = code
    /\ e.StatusText = StatusText(code)

\* C2: an image whose payload has size 0 is never accepted and sent: Upload
\* fails with the validation error of status 400 "Bad Request", and nothing
\* was started for it.  (A refusal by NewImage counts as a failure here.)
C2_EmptyPayloadIs400 ==
    \A c \in AllCalls :
        (img[c].ok /\ img[c].size = 0 /\ Uploaded(c))
        => /\ Returned(c)
           /\ HasStatus(result[c].err, StatusBadRequest)
           /\ ppc[c] = "none"
           /\ doCalls[c] = 0

\* C3: for an image larger than 33,554,432 bytes Upload fails with the
\* validation error of status 400; an image of 1 to 33,554,432 bytes passes
\* the size validation.
C3_OversizeIs400 ==
    \A c \in AllCalls :
        (img[c].ok /\ Uploaded(c))
        => /\ img[c].size > maxSize
                => /\ Returned(c)
                   /\ HasStatus(result[c].err, StatusBadRequest)
                   /\ ppc[c] = "none"
           /\ img[c].size \in 1..maxSize
                => ~(Returned(c) /\ IsValidationError(result[c].err))

\* json.Unmarshal fails on the body, in the branch of the response's status
DecodeFails(c) ==
    IF httpResp[c].StatusCode = StatusOK
    THEN ~UnmarshalResponse(rev, httpResp[c].Body).ok
    ELSE ~UnmarshalError(httpResp[c].Body).ok

\* C7: when the body fails to decode, on HTTP 200 or on another status, Upload
\* returns no Response and the Internal error: status code 500, status text
\* "Internal Server Error", whatever the HTTP status was.
C7_DecodeFailureIs500 ==
    \A c \in AllCalls :
        (GotBody(c) /\ DecodeFails(c))
        => /\ NoResponseReturned(c)
           /\ HasStatus(result[c].err, StatusInternalServerError)

\* the message msg ends with the message of the error it wraps
Wraps(msg, cause) ==
    /\ Len(msg) >= Len(cause)
    /\ SubSeq(msg, Len(msg) - Len(cause) + 1, Len(msg)) = cause

\* C8: when client.Do fails, or reading the response body fails, Upload returns
\* no Response and the structured Internal error (500, "Internal Server Error")
\* whose message wraps the message of the underlying error; never the raw error.
C8_TransportFailureIs500 ==
    \A c \in AllCalls :
        /\ (Returned(c) /\ doCalls[c] = 1 /\ ~httpResp[c].received)
              => /\ NoResponseReturned(c)
                 /\ HasStatus(result[c].err, StatusInternalServerError)
                 /\ Wraps(result[c].err.Err.Message, httpResp[c].err.msg)
        /\ (Returned(c) /\ httpResp[c].received /\ httpResp[c].readErr)
              => /\ NoResponseReturned(c)
                 /\ HasStatus(result[c].err, StatusInternalServerError)
                 /\ Wraps(result[c].err.Err.Message, <<"unexpected EOF">>)

\* a and b are Error values of the same status code and status text
SameStatus(a, b) ==
    /\ a.kind = "Error"
    /\ b.kind = "Error"
    /\ a.StatusCode = b.StatusCode
    /\ a.StatusText = b.StatusText

\* C9: an Error a matches a target b under errors.Is exactly when b is an Error
\* of the same status code and status text, whatever their message, code and
\* context; a target of another error type never matches.
C9_MatchByStatusOnly ==
    isRes.done =>
        /\ isA.kind = "Error" => (isRes.ab <=> SameStatus(isA, isB))
        /\ isB.kind = "Error" => (isRes.ba <=> SameStatus(isB, isA))

\* C10: whenever Upload returns a nil error, the Response is the fully
\* populated success payload that the service reported.
C10_NoPartialSuccess ==
    \A c \in AllCalls :
        (Returned(c) /\ result[c].err.kind = "nil")
        => /\ httpResp[c].received
           /\ WellFormedSuccess(rev, httpResp[c].Body)
           /\ ResponseEquals(rev, result[c].resp.val, httpResp[c].Body.v)

-----------------------------------------------------------------------------
(* Cancellation *)

\* the contexts a caller can bound a call with
CallerContexts == {"background", "live", "canceled"}

\* C11: every request Upload builds carries the context its caller supplied,
\* and a call whose context was done while client.Do was in flight returned an
\* error from Do, not the outcome of a completed exchange.
C11_ContextPropagated ==
    \A c \in AllCalls :
        /\ req[c].built => req[c].ctx \in CallerContexts
        /\ (Returned(c) /\ doCalls[c] = 1 /\ ctx[c] = "canceled")
              => /\ ~httpResp[c].received
                 /\ IsError(result[c].err)

-----------------------------------------------------------------------------
(* Concurrent calls *)

IsPrefix(s, t) == Len(s) <= Len(t) /\ SubSeq(t, 1, Len(s)) = s

\* what the call returns when it runs alone: a function of its own image, its
\* own context and the reply of the transport to its own request
OutcomeAlone(c) ==
    LET invalid == Validate(rev, img[c]) IN
    IF IsError(invalid) THEN Fail(rev, invalid)
    ELSE IF doCalls[c] = 0
         THEN Fail(rev, InternalError(rev, "new request: ",
                                      NewRequestError(endpoint, ctx[c])))
    ELSE IF ~httpResp[c].received
         THEN Fail(rev, InternalError(rev, "http client request do: ",
                                      httpResp[c].err))
    ELSE respParse(rev, httpResp[c])

\* the pipe and the producer of call c
Plumbing(c) == <<ppc[c], pipe[c], sent[c], failed[c]>>

\* C12: under every interleaving of the calls on one client, no step changes
\* the client's key or endpoint, no step touches the pipe or the producer of
\* more than one call, what the transport has read of a call's body is a prefix
\* of the body made of that call's own image, and a returned call has the
\* outcome it has when it runs alone with the same replies.
C12_ConcurrentCallsIndependent ==
    /\ [][clientVars' = clientVars]_vars
    /\ [][Cardinality({c \in AllCalls : Plumbing(c)' # Plumbing(c)}) <= 1]_vars
    /\ [](\A c \in AllCalls :
            /\ ppc[c] # "none" => IsPrefix(sent[c], Body(rev, key, img[c]))
            /\ ppc[c] = "none" => sent[c] = <<>>
            /\ Returned(c) => result[c] = OutcomeAlone(c))

\* both calls were in flight together with different images, their producers
\* both wrote, and the first call has returned a success while the second is
\* still waiting for its reply
C12_Witness ==
    /\ Returned(1) /\ ~IsError(result[1].err) /\ doCalls[1] = 1
    /\ pc[2] = "do" /\ ppc[2] = "writing"
    /\ Len(sent[1]) > 0 /\ Len(sent[2]) > 0
    /\ ppc[1] = "writing"
    /\ img[1] # img[2]

-----------------------------------------------------------------------------
(* The producer after the return of Upload *)

\* the producer of call c is parked in a write that nothing will ever take or
\* fail: the transport never got the read end, and nobody closed it
Blocked(c) ==
    /\ ppc[c] = "writing"
    /\ ~pipe[c].rclosed
    /\ Len(sent[c]) < Len(Body(rev, key, img[c]))
    /\ doCalls[c] = 0

\* C13: once Upload has returned, on whichever path, a producer that is still
\* running can take its next step (its write fails on the closed read end, or
\* it has written everything and closes): none is left blocked on the pipe.
C13_ProducerNeverLeftBlocked ==
    \A c \in AllCalls : Returned(c) => ~Blocked(c)

-----------------------------------------------------------------------------
(* The order of the multipart body *)

\* the image has an expiration: a non-empty string, or a non-zero ttl
HasExpiration(r, im) ==
    IF TimeIsString(r) THEN im.expiration # <<>> ELSE im.expiration # 0

\* the text of the expiration field
ExpirationText(r, im) ==
    IF TimeIsString(r) THEN im.expiration
    ELSE IF im.expiration = 60 THEN <<"6", "0">> ELSE FormatUint(im.expiration)

\* the body of a file upload as documented: key, type, action, the expiration
\* when there is one, the file part, the closing boundary
DocumentedBody(r, k, im) ==
    <<[part |-> "field", name |-> "key", value |-> <<k>>],
      [part |-> "field", name |-> "type", value |-> <<"file">>],
      [part |-> "field", name |-> "action", value |-> <<"upload">>]>>
    \o (IF HasExpiration(r, im)
        THEN <<[part |-> "field", name |-> "expiration",
                value |-> ExpirationText(r, im)]>>
        ELSE <<>>)
    \o <<[part |-> "file", name |-> "image", filename |-> im.name,
          data |-> im.payload]>>
    \o <<[part |-> "close"]>>

\* C14: what the consumer has read of the body of a file upload is, at every
\* moment, the beginning of: key, type=file, action=upload, expiration exactly
\* when the image has one, the file part "image" under the image's name with
\* its bytes, the closing boundary; and a producer that wrote the closing
\* boundary has sent exactly that, after which the stream ends.
C14_BodyFieldOrder ==
    \A c \in AllCalls :
        (ppc[c] # "none" /\ img[c].payload.kind = "file")
            => /\ IsPrefix(sent[c], DocumentedBody(rev, key, img[c]))
               /\ (sent[c] # <<>> /\ sent[c][Len(sent[c])] = Trailer)
                     => /\ sent[c] = DocumentedBody(rev, key, img[c])
                        /\ ENABLED ProducerDone(c) \/ pipe[c].wclosed

-----------------------------------------------------------------------------
(* Write failures in the producer *)

\* the writes of parts (fields, file) among the failed writes of call c; the
\* closing boundary is the closing of the multipart writer
FailedParts(c) == {i \in DOMAIN failed[c] : failed[c][i].part # "close"}

\* C15: a write failure in the producer is not an outcome of the building
\* step.  The producer that saw a write fail wrote no further part: it closed
\* the multipart writer and the write end of the pipe, leaving a truncated
\* body; the step that builds the request failed only if the request could not
\* be constructed; and the call's outcome is the one client.Do and the decoding
\* of the response give.
C15_ProducerFailureSwallowed ==
    \A c \in AllCalls :
        /\ (Returned(c) /\ ppc[c] # "none" /\ doCalls[c] = 0)
              => /\ IsError(NewRequestError(endpoint, ctx[c]))
                 /\ failed[c] = <<>>
        /\ failed[c] # <<>>
              => /\ Cardinality(FailedParts(c)) <= 1
                 /\ ppc[c] = "exited" /\ pipe[c].wclosed
                 /\ Len(sent[c]) < Len(Body(rev, key, img[c]))
                 /\ doCalls[c] = 1
                 /\ Returned(c) => result[c] = OutcomeAlone(c)

====
